---- MODULE Spec2Model ----
(***************************************************************************)
(* The SQLite backend of the song-recognition storage client                *)
(* (src/utils/dbClient.go): the fingerprints table, the songs table and the *)
(* operations of SQLiteDB on them.                                          *)
(*                                                                          *)
(* Go strings are sequences of one-character strings, so that               *)
(* strings.Contains, strings.Split and concatenation are computed.          *)
(***************************************************************************)
EXTENDS Integers, Sequences, FiniteSets, TLC

VARIABLES fingerprints, songs, call, latest, issued, count,
          handle, tables, client, procs, writer

\* The sql.DB handle, the tables that exist in the database file and the
\* backend NewDbClient constructed.
lifecycle == <<handle, tables, client>>

\* The callers that run an operation concurrently and the holder of SQLite's
\* write lock.
conc == <<procs, writer>>

vars == <<fingerprints, songs, call, latest, issued, count, lifecycle, conc>>

(***************************************************************************)
(* Bounds and input sets                                                    *)
(***************************************************************************)
MaxAddress == 1
MaxID == 1
MaxReq == 3

Addresses == 0..MaxAddress
IDs == 0..MaxID

\* The occurrences of the spec's example scenario.
Couples == { [AnchorTimeMs |-> 500, SongID |-> 1],
             [AnchorTimeMs |-> 900, SongID |-> 2] }

\* map[uint32]models.Couple: every finite map over the addresses.
Batches == UNION { [D -> Couples] : D \in SUBSET Addresses }

RECURSIVE SeqsUpTo(_, _)
SeqsUpTo(S, n) ==
    IF n = 0 THEN { <<>> }
    ELSE LET shorter == SeqsUpTo(S, n - 1)
         IN shorter \cup { Append(s, x) : s \in { t \in shorter : Len(t) = n - 1 }, x \in S }

\* The orders in which Go may range over a map with key set D.
Orders(D) ==
    { s \in [1..Cardinality(D) -> D] : \A i, j \in 1..Cardinality(D) : s[i] = s[j] => i = j }

(***************************************************************************)
(* Go strings                                                               *)
(***************************************************************************)
Contains(s, substr) ==
    \E i \in 0..(Len(s) - Len(substr)) : SubSeq(s, i + 1, i + Len(substr)) = substr

\* strings.Index, 1-based; 0 when sep does not occur.
Index(s, sep) ==
    LET hits == { i \in 1..(Len(s) - Len(sep) + 1) : SubSeq(s, i, i + Len(sep) - 1) = sep }
    IN IF hits = {} THEN 0 ELSE CHOOSE i \in hits : \A j \in hits : i <= j

\* strings.Split for a non-empty separator: leftmost, non-overlapping.
RECURSIVE Split(_, _)
Split(s, sep) ==
    LET i == Index(s, sep)
    IN IF i = 0 THEN << s >>
       ELSE << SubSeq(s, 1, i - 1) >> \o Split(SubSeq(s, i + Len(sep), Len(s)), sep)

Sep == << "-", "-", "-" >>

FILTER_KEYS ==
    << "_", "i", "d", " ", "|", " ", "y", "t", "I", "D", " ", "|", " ", "k", "e", "y" >>

(***************************************************************************)
(* The fingerprints table: rows (address PRIMARY KEY, anchorTimeMs, songID) *)
(***************************************************************************)
FpRow(address, couple) ==
    [address |-> address, anchorTimeMs |-> couple.AnchorTimeMs, songID |-> couple.SongID]

RowsAt(table, address) == { r \in table : r.address = address }

\* INSERT ... ON CONFLICT(address) DO UPDATE SET anchorTimeMs=..., songID=...
UpsertAppend(table, row) == table \cup { row }
Upsert(table, row) == (table \ RowsAt(table, row.address)) \cup { row }

\* The loop of StoreFingerprints: the first n statements of the batch, in map order.
RECURSIVE ExecUpserts(_, _, _, _)
ExecUpserts(tx, batch, order, n) ==
    IF n = 0 THEN tx
    ELSE Upsert(ExecUpserts(tx, batch, order, n - 1), FpRow(order[n], batch[order[n]]))

\* A transaction works on its own copy of the table (tx); the table itself (db)
\* changes at Commit only.
Begin(db) == db
CommitLost(db, tx) == db
Commit(db, tx) == tx
RollbackKeeps(db, tx) == tx
Rollback(db, tx) == db

\* StoreFingerprints behind a foreign key from fingerprints.songID to songs.id.
StoreFingerprintsReferencing(db, batch, order, fault, k) ==
    IF fault # "none" \/ \E a \in DOMAIN batch : \A s \in songs : s.id # batch[a].SongID
    THEN [err |-> "WriteError", table |-> db, executed |-> 0]
    ELSE [err |-> "nil",
          table |-> Commit(db, ExecUpserts(Begin(db), batch, order, Cardinality(DOMAIN batch))),
          executed |-> Cardinality(DOMAIN batch)]

StoreFaults == { "none", "begin", "prepare", "exec", "commit" }

\* StoreFingerprints on table db: fault names the call that fails, k the statement
\* that fails when fault = "exec". The result: the error, the table afterwards and
\* the number of upsert statements that had executed.
StoreFingerprints(db, batch, order, fault, k) ==
    LET n == Cardinality(DOMAIN batch)
    IN IF fault = "begin"
       THEN [err |-> "WriteError", table |-> db, executed |-> 0]
       ELSE LET tx0 == Begin(db)
            IN IF fault = "prepare"
               THEN [err |-> "WriteError", table |-> Rollback(db, tx0), executed |-> 0]
               ELSE IF fault = "exec"
               THEN [err |-> "WriteError",
                     table |-> Rollback(db, ExecUpserts(tx0, batch, order, k - 1)),
                     executed |-> k - 1]
               ELSE IF fault = "commit"
               THEN [err |-> "WriteError",
                     table |-> Rollback(db, ExecUpserts(tx0, batch, order, n)),
                     executed |-> n]
               ELSE [err |-> "nil",
                     table |-> Commit(db, ExecUpserts(tx0, batch, order, n)),
                     executed |-> n]

\* rows.Next / rows.Scan: the rows of one query as a sequence of couples.
RECURSIVE ScanRows(_)
ScanRows(rows) ==
    IF rows = {} THEN << >>
    ELSE LET r == CHOOSE x \in rows : \A y \in rows :
                      <<x.anchorTimeMs, x.songID>> = <<y.anchorTimeMs, y.songID>>
                      \/ x.anchorTimeMs < y.anchorTimeMs
                      \/ (x.anchorTimeMs = y.anchorTimeMs /\ x.songID < y.songID)
         IN << [AnchorTimeMs |-> r.anchorTimeMs, SongID |-> r.songID] >>
            \o ScanRows(rows \ { r })

EmptyCouples == [a \in {} |-> << >>]

\* couples[address] = docCouples
MapPutIfFound(m, address, docCouples) ==
    IF docCouples = << >> THEN m
    ELSE [a \in DOMAIN m \cup { address } |-> IF a = address THEN docCouples ELSE m[a]]
MapPut(m, address, docCouples) ==
    [a \in DOMAIN m \cup { address } |-> IF a = address THEN docCouples ELSE m[a]]

\* The loop of GetCouples over the first n addresses; lost is the number of the
\* address whose rows.Next fails (0: none).
RECURSIVE CouplesLoop(_, _, _, _)
CouplesLoop(db, addresses, n, lost) ==
    IF n = 0 THEN EmptyCouples
    ELSE MapPut(CouplesLoop(db, addresses, n - 1, lost), addresses[n],
                IF n = lost THEN << >> ELSE ScanRows(RowsAt(db, addresses[n])))

ReadFaults == { "none", "query", "next", "scan" }

\* GetCouples: fault names the call that fails while address number k is read.
\* A failing Query or Scan returns the error; a failing rows.Next only ends the
\* loop over the rows (rows.Err is not read), so that read yields no couple.
GetCouples(db, addresses, fault, k) ==
    LET hit == fault # "none" /\ k <= Len(addresses)
    IN IF hit /\ (fault = "query" \/ (fault = "scan" /\ RowsAt(db, addresses[k]) # {}))
       THEN [err |-> "ReadError", couples |-> EmptyCouples]
       ELSE [err |-> "nil",
             couples |-> CouplesLoop(db, addresses, Len(addresses),
                                     IF hit /\ fault = "next" THEN k ELSE 0)]

(***************************************************************************)
(* The songs table: rows (id PRIMARY KEY, key UNIQUE, ytID UNIQUE)          *)
(***************************************************************************)
Str_id == << "i", "d" >>
Str_ytID == << "y", "t", "I", "D" >>
Str_key == << "k", "e", "y" >>
Columns == { Str_id, Str_ytID, Str_key }

\* The values a caller passes as interface{}: a uint32 or a string.
IntVal(n) == [kind |-> "int", int |-> n, text |-> << >>]
TextVal(s) == [kind |-> "text", int |-> 0, text |-> s]

Titles == { << "a" >>, << "a", "-" >>, << "a", "-", "-", "-", "b" >> }
Artists == { << "b" >>, << "-", "b" >> }
YtIDs == { << "x" >>, << "y" >> }

\* GenerateSongKey: "<title>---<artist>".
GenerateSongKey(songTitle, songArtist) == songTitle \o Sep \o songArtist

\* GenerateUniqueID: the identifiers a call may return.
GenerateUniqueID == IDs

Keys == { GenerateSongKey(t, a) : t \in Titles, a \in Artists }

\* The constraints of CREATE TABLE songs that reject a row.
UniqueViolation(table, row) ==
    \E s \in table : s.id = row.id \/ s.key = row.key \/ s.ytID = row.ytID

\* db.Exec("INSERT INTO songs ..."): "unique" is SQLite's "UNIQUE constraint
\* failed", "io" any other failure of the statement.
InsertReplaces(table, row, fault) ==
    IF fault # "none" THEN [err |-> "io", table |-> table]
    ELSE [err |-> "nil",
          table |-> { s \in table : s.id # row.id /\ s.key # row.key /\ s.ytID # row.ytID }
                    \cup { row }]
InsertChecksIDOnly(table, row, fault) ==
    IF fault # "none" THEN [err |-> "io", table |-> table]
    ELSE IF \E s \in table : s.id = row.id THEN [err |-> "unique", table |-> table]
    ELSE [err |-> "nil", table |-> table \cup { row }]
InsertSong(table, row, fault) ==
    IF fault # "none" THEN [err |-> "io", table |-> table]
    ELSE IF UniqueViolation(table, row) THEN [err |-> "unique", table |-> table]
    ELSE [err |-> "nil", table |-> table \cup { row }]

RegisterSong(table, songTitle, songArtist, ytID, newID, fault) ==
    LET songID == newID
        key == GenerateSongKey(songTitle, songArtist)
        ins == InsertSong(table, [id |-> songID, key |-> key, ytID |-> ytID], fault)
    IN IF ins.err # "nil"
       THEN IF ins.err = "unique"
            THEN [songID |-> 0, err |-> "DuplicateSong", table |-> ins.table]
            ELSE [songID |-> 0, err |-> "WriteError", table |-> ins.table]
       ELSE [songID |-> songID, err |-> "nil", table |-> ins.table]

\* db.Exec("DELETE FROM songs WHERE id = ?")
DeleteMissingFails(table, songID, fault) ==
    IF fault # "none" \/ \A s \in table : s.id # songID
    THEN [err |-> "WriteError", table |-> table]
    ELSE [err |-> "nil", table |-> { s \in table : s.id # songID }]
DeleteEverySong(table, songID, fault) ==
    IF fault # "none" THEN [err |-> "WriteError", table |-> table]
    ELSE [err |-> "nil", table |-> {}]
DeleteSongByID(table, songID, fault) ==
    IF fault # "none" THEN [err |-> "WriteError", table |-> table]
    ELSE [err |-> "nil", table |-> { s \in table : s.id # songID }]

\* db.QueryRow("SELECT COUNT(*) FROM songs").Scan(&total)
TotalSongsOffByOne(table, fault) ==
    IF fault # "none" THEN [total |-> 0, err |-> "ReadError"]
    ELSE [total |-> Cardinality(table) + 1, err |-> "nil"]
TotalSongs(table, fault) ==
    IF fault # "none" THEN [total |-> 0, err |-> "ReadError"]
    ELSE [total |-> Cardinality(table), err |-> "nil"]

\* The columns a WHERE expression names: the filter split on "|", each part
\* without its blanks. SQLite accepts "<column>" and "<column> | <column> ...".
RECURSIVE TrimLeft(_)
TrimLeft(s) == IF s # << >> /\ Head(s) = " " THEN TrimLeft(Tail(s)) ELSE s

RECURSIVE TrimRight(_)
TrimRight(s) ==
    IF s # << >> /\ s[Len(s)] = " " THEN TrimRight(SubSeq(s, 1, Len(s) - 1)) ELSE s

Trim(s) == TrimRight(TrimLeft(s))

WhereOperands(filterKey) ==
    LET parts == Split(filterKey, << "|" >>)
    IN [i \in 1..Len(parts) |-> Trim(parts[i])]

ValidWhere(filterKey) ==
    \A i \in 1..Len(WhereOperands(filterKey)) : WhereOperands(filterKey)[i] \in Columns

ColumnValue(row, column) ==
    IF column = Str_id THEN IntVal(row.id)
    ELSE IF column = Str_ytID THEN TextVal(row.ytID)
    ELSE TextVal(row.key)

\* SQLite's cast of an operand of "|" to an integer: a text that starts with no
\* digit (every key and ytID here) casts to 0.
CastInt(v) == IF v.kind = "int" THEN v.int ELSE 0

RECURSIVE BitOr(_, _)
BitOr(a, b) ==
    IF a = 0 THEN b
    ELSE IF b = 0 THEN a
    ELSE (IF a % 2 = 1 \/ b % 2 = 1 THEN 1 ELSE 0) + 2 * BitOr(a \div 2, b \div 2)

RECURSIVE OrOperands(_, _, _)
OrOperands(row, operands, n) ==
    IF n = 1 THEN CastInt(ColumnValue(row, operands[1]))
    ELSE BitOr(OrOperands(row, operands, n - 1), CastInt(ColumnValue(row, operands[n])))

\* The value of the WHERE expression on a row.
WhereValue(row, filterKey) ==
    LET operands == WhereOperands(filterKey)
    IN IF Len(operands) = 1 THEN ColumnValue(row, operands[1])
       ELSE IntVal(OrOperands(row, operands, Len(operands)))

\* "<expression> = ?": an integer and a text that is no number are never equal.
Matching(table, filterKey, value) ==
    { s \in table : WhereValue(s, filterKey) = value }

NoRow == [id |-> 0, key |-> << >>, ytID |-> << >>]

\* db.QueryRow(query, value).Scan(...): the first matching row, in rowid (id)
\* order; "engine" is a failure of the statement (one SQLite cannot compile, or
\* an I/O failure).
QueryRow(table, filterKey, value, fault) ==
    IF fault # "none" \/ ~ValidWhere(filterKey) THEN [err |-> "engine", row |-> NoRow]
    ELSE LET rows == Matching(table, filterKey, value)
         IN IF rows = {} THEN [err |-> "ErrNoRows", row |-> NoRow]
            ELSE [err |-> "nil",
                  row |-> CHOOSE r \in rows : \A o \in rows : r.id <= o.id]

EmptySong == [Title |-> << >>, Artist |-> << >>, YouTubeID |-> << >>]

\* if !strings.Contains(FILTER_KEYS, filterKey)
FilterAllowed(filterKey) == Contains(FILTER_KEYS, filterKey)

\* if err != nil { if err == sql.ErrNoRows ... }
ScanFailedAlwaysError(qerr) == [s |-> EmptySong, songExists |-> FALSE, e |-> "ReadError"]
ScanFailed(qerr) ==
    IF qerr = "ErrNoRows"
    THEN [s |-> EmptySong, songExists |-> FALSE, e |-> "nil"]
    ELSE [s |-> EmptySong, songExists |-> FALSE, e |-> "ReadError"]

\* parts := strings.Split(song.Title, "---") ...
SongOfRowTruncates(row) ==
    LET parts == Split(row.key, Sep)
    IN IF Len(parts) < 2
       THEN [s |-> EmptySong, songExists |-> FALSE, e |-> "CorruptRecord"]
       ELSE [s |-> [Title |-> parts[1], Artist |-> parts[2], YouTubeID |-> row.ytID],
             songExists |-> TRUE, e |-> "nil"]
SongOfRow(row) ==
    LET parts == Split(row.key, Sep)
    IN IF Len(parts) # 2
       THEN [s |-> EmptySong, songExists |-> FALSE, e |-> "CorruptRecord"]
       ELSE [s |-> [Title |-> parts[1], Artist |-> parts[2], YouTubeID |-> row.ytID],
             songExists |-> TRUE, e |-> "nil"]

\* GetSong; queried tells whether the call reached db.QueryRow.
GetSong(table, filterKey, value, fault) ==
    IF ~FilterAllowed(filterKey)
    THEN [s |-> EmptySong, songExists |-> FALSE, e |-> "InvalidFilter", queried |-> FALSE]
    ELSE LET q == QueryRow(table, filterKey, value, fault)
             r == IF q.err # "nil" THEN ScanFailed(q.err) ELSE SongOfRow(q.row)
         IN [s |-> r.s, songExists |-> r.songExists, e |-> r.e, queried |-> TRUE]

GetSongByID(table, songID, fault) == GetSong(table, Str_id, IntVal(songID), fault)

GetSongByYTID(table, ytID, fault) == GetSong(table, Str_ytID, TextVal(ytID), fault)

GetSongByKey(table, key, fault) == GetSong(table, Str_key, TextVal(key), fault)

(***************************************************************************)
(* The state machine: one action per operation of SQLiteDB. call records    *)
(* the last call, its arguments, the fault put on it and what it returned;  *)
(* latest and issued are history: the occurrence the last committed batch   *)
(* gave each address, and the songIDs RegisterSong has returned.            *)
(***************************************************************************)
FilterInputs ==
    { Str_id, Str_ytID, Str_key,
      << "a", "d", "d", "r", "e", "s", "s" >>,
      << "_", "i", "d" >>,
      << >>,
      << "k" >>,
      << "y", "t", "I", "D", " ", "|", " ", "k", "e", "y" >> }

Values == { IntVal(i) : i \in IDs } \cup { TextVal(t) : t \in YtIDs \cup Keys }

TableNames == { "fingerprints", "songs" }

(***************************************************************************)
(* Construction, Close and DeleteStorage                                   *)
(***************************************************************************)

\* CREATE TABLE IF NOT EXISTS fingerprints, then songs: fault names the
\* statement that fails. The result: the error and the tables that exist.
InitTablesFaults == { "none", "fingerprints", "songs" }

InitTables(h, tbls, fault) ==
    IF h = "closed" \/ fault = "fingerprints"
    THEN [err |-> "InitError", tables |-> tbls]
    ELSE IF fault = "songs"
    THEN [err |-> "InitError", tables |-> tbls \cup { "fingerprints" }]
    ELSE [err |-> "nil", tables |-> tbls \cup { "fingerprints", "songs" }]

\* sql.Open and InitTables. A failure returns no SQLiteDB, so the caller's
\* handle stays as it was.
newSQLiteDBFaults == { "none", "open", "fingerprints", "songs" }

newSQLiteDB(h, tbls, fault) ==
    IF fault = "open"
    THEN [client |-> "nil", err |-> "OpenError", handle |-> h, tables |-> tbls]
    ELSE LET r == InitTables("open", tbls, fault)
         IN IF r.err # "nil"
            THEN [client |-> "nil", err |-> "InitError", handle |-> h, tables |-> r.tables]
            ELSE [client |-> "sqlite", err |-> "nil", handle |-> "open", tables |-> r.tables]

\* The document backend's constructor.
newMongoDB(fault) ==
    IF fault # "none"
    THEN [client |-> "nil", err |-> "OpenError"]
    ELSE [client |-> "mongodb", err |-> "nil"]

Str_mongodb == << "m", "o", "n", "g", "o", "d", "b" >>
Str_sqlite == << "s", "q", "l", "i", "t", "e" >>

\* The values of STORAGE_TYPE: unset, or set to a string.
Unset == [set |-> FALSE, value |-> << >>]

StorageTypes ==
    { Unset } \cup
    { [set |-> TRUE, value |-> v] :
        v \in { << >>, Str_mongodb, Str_sqlite,
                << "S", "Q", "L", "i", "t", "e" >>,
                << "s", "q", "l", "i", "t", "e", "3" >>,
                << "m", "o", "n", "g", "o" >>,
                << "M", "o", "n", "g", "o", "D", "B" >>,
                << " ", "s", "q", "l", "i", "t", "e" >>,
                << "p", "o", "s", "t", "g", "r", "e", "s" >> } }

\* os.Getenv: the empty string for an unset variable.
Getenv(env) == IF env.set THEN env.value ELSE << >>

\* NewDbClient: the client returned, the error, the constructor that ran and
\* the handle and tables afterwards. A failed newSQLiteDB returns a nil
\* *SQLiteDB, which the DBClient result holds as a non-nil interface value.
NewDbClientDefaultsRelational(env, h, tbls, fault) ==
    LET storageType == IF Getenv(env) = << >> THEN Str_sqlite ELSE Getenv(env)
    IN IF storageType = Str_mongodb
       THEN [client |-> newMongoDB(fault).client, err |-> newMongoDB(fault).err,
             constructed |-> "mongodb", handle |-> h, tables |-> tbls]
       ELSE IF storageType = Str_sqlite
       THEN LET r == newSQLiteDB(h, tbls, fault)
            IN [client |-> IF r.client = "nil" THEN "nil *SQLiteDB" ELSE r.client,
                err |-> r.err, constructed |-> "sqlite",
                handle |-> r.handle, tables |-> r.tables]
       ELSE [client |-> "nil", err |-> "UnsupportedBackend", constructed |-> "none",
             handle |-> h, tables |-> tbls]
NewDbClient(env, h, tbls, fault) ==
    LET storageType == IF Getenv(env) = << >> THEN Str_mongodb ELSE Getenv(env)
    IN IF storageType = Str_mongodb
       THEN [client |-> newMongoDB(fault).client, err |-> newMongoDB(fault).err,
             constructed |-> "mongodb", handle |-> h, tables |-> tbls]
       ELSE IF storageType = Str_sqlite
       THEN LET r == newSQLiteDB(h, tbls, fault)
            IN [client |-> IF r.client = "nil" THEN "nil *SQLiteDB" ELSE r.client,
                err |-> r.err, constructed |-> "sqlite",
                handle |-> r.handle, tables |-> r.tables]
       ELSE [client |-> "nil", err |-> "UnsupportedBackend", constructed |-> "none",
             handle |-> h, tables |-> tbls]

\* Close: nothing to do without a handle; sql.DB.Close returns nil on a handle
\* that is closed already, and the error of closing the connections otherwise.
CloseTwiceFails(h, fault) ==
    IF h = "nil" THEN [err |-> "nil", handle |-> h]
    ELSE IF h = "closed" THEN [err |-> "CloseError", handle |-> "closed"]
    ELSE [err |-> IF fault = "none" THEN "nil" ELSE "CloseError", handle |-> "closed"]
Close(h, fault) ==
    IF h = "nil" THEN [err |-> "nil", handle |-> h]
    ELSE IF h = "closed" THEN [err |-> "nil", handle |-> "closed"]
    ELSE [err |-> IF fault = "none" THEN "nil" ELSE "CloseError", handle |-> "closed"]

\* The names DeleteStorage is called with: the two tables and a name no table has.
StorageNames == TableNames \cup { "albums" }

\* DROP TABLE IF EXISTS collectionName
DeleteStorageStrict(h, tbls, collectionName, fault) ==
    IF h = "closed" \/ fault # "none" \/ collectionName \notin tbls
    THEN [err |-> "WriteError", tables |-> tbls]
    ELSE [err |-> "nil", tables |-> tbls \ { collectionName }]
DeleteStorage(h, tbls, collectionName, fault) ==
    IF h = "closed" \/ fault # "none"
    THEN [err |-> "WriteError", tables |-> tbls]
    ELSE [err |-> "nil", tables |-> tbls \ { collectionName }]

NoCall ==
    [op |-> "none", fault |-> "none", err |-> "nil",
     batch |-> [a \in {} |-> CHOOSE c \in Couples : TRUE], order |-> << >>, executed |-> 0,
     addresses |-> << >>, couples |-> EmptyCouples,
     title |-> << >>, artist |-> << >>, ytID |-> << >>, newID |-> 0, songID |-> 0,
     filterKey |-> << >>, value |-> IntVal(0),
     song |-> EmptySong, found |-> FALSE, queried |-> FALSE,
     total |-> 0, name |-> "",
     env |-> [set |-> FALSE, value |-> << >>], client |-> "nil", constructed |-> "none",
     before |-> [fingerprints |-> {}, songs |-> {}, issued |-> {},
                 tables |-> {}, handle |-> "nil"]]

\* The record of a call: its name, the fault put on it, the error it returned
\* and the tables as they were when it was made.
Called(opName, fault, err) ==
    [NoCall EXCEPT !.op = opName, !.fault = fault, !.err = err,
                   !.before = [fingerprints |-> fingerprints, songs |-> songs,
                               issued |-> issued, tables |-> tables,
                               handle |-> handle]]

\* No call is in progress: the operations are synchronous, one at a time.
Idle == call = NoCall

\* A caller that runs no operation.
Procs == { "p1", "p2" }

NoProc ==
    [pc |-> "idle", op |-> "none", err |-> "nil",
     title |-> << >>, artist |-> << >>, ytID |-> << >>, key |-> << >>,
     newID |-> 0, songID |-> 0, fault |-> "none",
     batch |-> [a \in {} |-> CHOOSE c \in Couples : TRUE], order |-> << >>,
     executed |-> 0, tx |-> {}, rank |-> 0, with |-> {}]

\* The state newSQLiteDB leaves: the handle open, both tables created.
Init ==
    /\ fingerprints = {}
    /\ songs = {}
    /\ call = NoCall
    /\ latest = [a \in Addresses |-> {}]
    /\ issued = {}
    /\ count = 0
    /\ handle = "open"
    /\ tables = TableNames
    /\ client = "sqlite"
    /\ procs = [p \in Procs |-> NoProc]
    /\ writer = "none"

\* The failure the engine forces on a statement: closedFault when the handle is
\* closed ("sql: database is closed"), droppedFault when the table does not
\* exist ("no such table").
Forced(tableName, closedFault, droppedFault) ==
    IF handle = "closed" THEN closedFault
    ELSE IF tableName \notin tables THEN droppedFault
    ELSE "none"

StoreFingerprintsFrom(batches) ==
    \E batch \in batches, fault \in StoreFaults :
      \E order \in Orders(DOMAIN batch), k \in 1..Cardinality(DOMAIN batch) \cup { 1 } :
        /\ Idle
        /\ handle # "nil"
        /\ Forced("fingerprints", "begin", "prepare") # "none"
              => fault = Forced("fingerprints", "begin", "prepare")
        /\ fault = "exec" => DOMAIN batch # {}
        /\ fault # "exec" => k = 1
        /\ LET r == StoreFingerprints(fingerprints, batch, order, fault, k)
           IN /\ fingerprints' = r.table
              /\ call' = [Called("StoreFingerprints", fault, r.err)
                          EXCEPT !.batch = batch, !.order = order,
                                 !.executed = r.executed]
              /\ latest' = IF r.err = "nil"
                           THEN [a \in Addresses |->
                                   IF a \in DOMAIN batch THEN { batch[a] } ELSE latest[a]]
                           ELSE latest
        /\ UNCHANGED <<songs, issued, count, lifecycle, conc>>

CallStoreFingerprints == StoreFingerprintsFrom(Batches)

GetCouplesFrom(requests) ==
    \E addresses \in requests, fault \in ReadFaults :
      \E k \in 1..Len(addresses) \cup { 1 } :
        /\ Idle
        /\ handle # "nil"
        /\ (Forced("fingerprints", "query", "query") # "none" /\ addresses # << >>)
              => fault = "query" /\ k = 1
        /\ fault # "none" => addresses # << >>
        /\ fault = "none" => k = 1
        /\ LET r == GetCouples(fingerprints, addresses, fault, k)
           IN call' = [Called("GetCouples", fault, r.err)
                       EXCEPT !.addresses = addresses, !.couples = r.couples,
                              !.executed = k]
        /\ UNCHANGED <<fingerprints, songs, latest, issued, count, lifecycle, conc>>

CallGetCouples == GetCouplesFrom(SeqsUpTo(Addresses, MaxReq))

\* The faults of a single statement on the songs table.
SongFaults ==
    IF Forced("songs", "io", "io") # "none" THEN { "io" } ELSE { "none", "io" }

RegisterSongFrom(titles, artists) ==
    \E songTitle \in titles, songArtist \in artists, ytID \in YtIDs,
       newID \in GenerateUniqueID, fault \in SongFaults :
        LET r == RegisterSong(songs, songTitle, songArtist, ytID, newID, fault)
        IN /\ Idle
           /\ handle # "nil"
           /\ songs' = r.table
           /\ call' = [Called("RegisterSong", fault, r.err)
                       EXCEPT !.title = songTitle, !.artist = songArtist,
                              !.ytID = ytID, !.newID = newID, !.songID = r.songID]
           /\ issued' = IF r.err = "nil" THEN issued \cup { r.songID } ELSE issued
           /\ count' = IF r.err = "nil" THEN count + 1 ELSE count
           /\ UNCHANGED <<fingerprints, latest, lifecycle, conc>>

CallRegisterSong == RegisterSongFrom(Titles, Artists)

Returned(opName, filterKey, value, fault, r) ==
    [Called(opName, fault, r.e)
       EXCEPT !.filterKey = filterKey, !.value = value,
              !.song = r.s, !.found = r.songExists, !.queried = r.queried]

CallGetSong ==
    \E filterKey \in FilterInputs, value \in Values, fault \in SongFaults :
        /\ Idle
        /\ handle # "nil"
        /\ call' = Returned("GetSong", filterKey, value, fault,
                            GetSong(songs, filterKey, value, fault))
        /\ UNCHANGED <<fingerprints, songs, latest, issued, count, lifecycle, conc>>

CallGetSongByID ==
    \E songID \in IDs, fault \in SongFaults :
        /\ Idle
        /\ handle # "nil"
        /\ call' = Returned("GetSongByID", Str_id, IntVal(songID), fault,
                            GetSongByID(songs, songID, fault))
        /\ UNCHANGED <<fingerprints, songs, latest, issued, count, lifecycle, conc>>

CallGetSongByYTID ==
    \E ytID \in YtIDs, fault \in SongFaults :
        /\ Idle
        /\ handle # "nil"
        /\ call' = Returned("GetSongByYTID", Str_ytID, TextVal(ytID), fault,
                            GetSongByYTID(songs, ytID, fault))
        /\ UNCHANGED <<fingerprints, songs, latest, issued, count, lifecycle, conc>>

CallGetSongByKey ==
    \E key \in Keys, fault \in SongFaults :
        /\ Idle
        /\ handle # "nil"
        /\ call' = Returned("GetSongByKey", Str_key, TextVal(key), fault,
                            GetSongByKey(songs, key, fault))
        /\ UNCHANGED <<fingerprints, songs, latest, issued, count, lifecycle, conc>>

CallDeleteSongByID ==
    \E songID \in IDs, fault \in SongFaults :
        LET r == DeleteSongByID(songs, songID, fault)
        IN /\ Idle
           /\ handle # "nil"
           /\ songs' = r.table
           /\ call' = [Called("DeleteSongByID", fault, r.err) EXCEPT !.songID = songID]
           /\ count' = IF r.err = "nil" /\ \E s \in songs : s.id = songID
                       THEN count - 1 ELSE count
           /\ UNCHANGED <<fingerprints, latest, issued, lifecycle, conc>>

CallTotalSongs ==
    \E fault \in SongFaults :
        LET r == TotalSongs(songs, fault)
        IN /\ Idle
           /\ handle # "nil"
           /\ call' = [Called("TotalSongs", fault, r.err) EXCEPT !.total = r.total]
           /\ UNCHANGED <<fingerprints, songs, latest, issued, count, lifecycle, conc>>

CallNewDbClient ==
    \E env \in StorageTypes, fault \in newSQLiteDBFaults :
        LET r == NewDbClient(env, handle, tables, fault)
        IN /\ Idle
           /\ r.constructed = "none" => fault = "none"
           /\ r.constructed = "mongodb" => fault \in { "none", "open" }
           /\ call' = [Called("NewDbClient", fault, r.err)
                       EXCEPT !.env = env, !.client = r.client,
                              !.constructed = r.constructed]
           /\ handle' = r.handle
           /\ tables' = r.tables
           /\ client' = IF r.err = "nil" THEN r.client ELSE "none"
           /\ UNCHANGED <<fingerprints, songs, latest, issued, count, conc>>

CallInitTables ==
    \E fault \in InitTablesFaults :
        LET r == InitTables(handle, tables, fault)
        IN /\ Idle
           /\ handle # "nil"
           /\ handle = "closed" => fault = "none"
           /\ call' = Called("InitTables", fault, r.err)
           /\ tables' = r.tables
           /\ UNCHANGED <<fingerprints, songs, latest, issued, count, handle, client, conc>>

CallClose ==
    \E fault \in { "none", "io" } :
        LET r == Close(handle, fault)
        IN /\ Idle
           /\ handle # "open" => fault = "none"
           /\ call' = Called("Close", fault, r.err)
           /\ handle' = r.handle
           /\ UNCHANGED <<fingerprints, songs, latest, issued, count, tables, client, conc>>

\* Dropping a table loses its rows.
CallDeleteStorage ==
    \E collectionName \in StorageNames, fault \in { "none", "io" } :
        LET r == DeleteStorage(handle, tables, collectionName, fault)
            dropped == tables \ r.tables
        IN /\ Idle
           /\ handle # "nil"
           /\ handle = "closed" => fault = "none"
           /\ call' = [Called("DeleteStorage", fault, r.err) EXCEPT !.name = collectionName]
           /\ tables' = r.tables
           /\ fingerprints' = IF "fingerprints" \in dropped THEN {} ELSE fingerprints
           /\ latest' = IF "fingerprints" \in dropped
                        THEN [a \in Addresses |-> {}] ELSE latest
           /\ songs' = IF "songs" \in dropped THEN {} ELSE songs
           /\ count' = IF "songs" \in dropped THEN 0 ELSE count
           /\ UNCHANGED <<issued, handle, client, conc>>

\* The caller takes the result of the last call.
Return ==
    /\ ~Idle
    /\ call' = NoCall
    /\ UNCHANGED <<fingerprints, songs, latest, issued, count, lifecycle, conc>>

(***************************************************************************)
(* Concurrent callers. RegisterSong computes the songID and the key, then   *)
(* runs one INSERT, which the engine executes atomically.                   *)
(***************************************************************************)
ConcTitles == { << "a" >>, << "a", "-" >> }
ConcArtists == { << "b" >> }

\* The callers whose call is in progress, other than p.
InProgress(p) == { q \in Procs \ { p } : procs[q].pc \notin { "idle", "done" } }

\* A call that begins overlaps every call in progress: with is history, the
\* callers whose current call ran while this one did.
Overlapping(p, started) ==
    [q \in Procs |->
        IF q = p THEN [started EXCEPT !.with = InProgress(p)]
        ELSE IF q \in InProgress(p) THEN [procs[q] EXCEPT !.with = @ \cup { p }]
        ELSE procs[q]]

\* songID := GenerateUniqueID(); key := GenerateSongKey(songTitle, songArtist)
RegisterBegin(p) ==
    \E songTitle \in ConcTitles, songArtist \in ConcArtists, ytID \in YtIDs,
       newID \in GenerateUniqueID :
        /\ procs[p].pc = "idle"
        /\ procs' = Overlapping(p,
                        [NoProc EXCEPT !.pc = "insert", !.op = "RegisterSong",
                                       !.title = songTitle, !.artist = songArtist,
                                       !.ytID = ytID, !.newID = newID,
                                       !.key = GenerateSongKey(songTitle, songArtist)])
        /\ UNCHANGED <<fingerprints, songs, call, latest, issued, count, lifecycle, writer>>

\* sqlite.db.Exec("INSERT INTO songs ...") and the function's return.
RegisterInsert(p) ==
    \E fault \in { "none", "io" } :
        LET me == procs[p]
            r == RegisterSong(songs, me.title, me.artist, me.ytID, me.newID, fault)
        IN /\ me.pc = "insert"
           /\ songs' = r.table
           /\ procs' = [procs EXCEPT ![p] =
                           [me EXCEPT !.pc = "done", !.err = r.err,
                                      !.songID = r.songID, !.fault = fault]]
           /\ issued' = IF r.err = "nil" THEN issued \cup { r.songID } ELSE issued
           /\ count' = IF r.err = "nil" THEN count + 1 ELSE count
           /\ UNCHANGED <<fingerprints, call, latest, lifecycle, writer>>

\* The caller takes the result of its call.
ProcReturn(p) ==
    /\ procs[p].pc = "done"
    /\ procs' = [q \in Procs |->
                    IF q = p THEN NoProc ELSE [procs[q] EXCEPT !.with = @ \ { p }]]
    /\ UNCHANGED <<fingerprints, songs, call, latest, issued, count, lifecycle, writer>>

NextConcurrentRegister ==
    \E p \in Procs :
        \/ RegisterBegin(p)
        \/ RegisterInsert(p)
        \/ ProcReturn(p)

(***************************************************************************)
(* Concurrent StoreFingerprints: each caller's transaction works on its own *)
(* copy of the table from its first write, for which it takes the engine's  *)
(* write lock, and releases the lock at Commit or Rollback.                 *)
(***************************************************************************)
ConcBatches == { b \in Batches : DOMAIN b \subseteq { 0, 1 } }

\* The engine grants the write lock when no other transaction holds it.
WriteLockIgnored(holder, p) == TRUE
WriteLockFree(holder, p) == holder \in { "none", p }

Release(p) == IF writer = p THEN "none" ELSE writer

\* The working copy of a caller's transaction.
Working(p) == IF procs[p].executed = 0 THEN Begin(fingerprints) ELSE procs[p].tx

\* tx, err := sqlite.db.Begin(); stmt, err := tx.Prepare(...)
StoreBegin(p) ==
    \E batch \in ConcBatches, fault \in { "none", "begin", "prepare" } :
      \E order \in Orders(DOMAIN batch) :
        /\ procs[p].pc = "idle"
        /\ procs' = Overlapping(p,
                        [NoProc EXCEPT !.op = "StoreFingerprints",
                                       !.pc = IF fault = "none" THEN "tx" ELSE "done",
                                       !.err = IF fault = "none" THEN "nil" ELSE "WriteError",
                                       !.fault = fault,
                                       !.batch = batch, !.order = order])
        /\ UNCHANGED <<fingerprints, songs, call, latest, issued, count, lifecycle, writer>>

\* One stmt.Exec of the loop; on an error the deferred Rollback runs.
StoreExec(p) ==
    \E fault \in { "none", "exec" } :
        LET me == procs[p]
            k == me.executed + 1
        IN /\ me.pc = "tx"
           /\ me.executed < Cardinality(DOMAIN me.batch)
           /\ IF fault = "none"
              THEN /\ WriteLockFree(writer, p)
                   /\ writer' = p
                   /\ procs' = [procs EXCEPT ![p] =
                                   [me EXCEPT !.executed = k,
                                              !.tx = Upsert(Working(p),
                                                       FpRow(me.order[k], me.batch[me.order[k]]))]]
                   /\ UNCHANGED fingerprints
              ELSE /\ writer' = Release(p)
                   /\ procs' = [procs EXCEPT ![p] =
                                   [me EXCEPT !.pc = "done", !.err = "WriteError",
                                              !.fault = fault]]
                   /\ fingerprints' = Rollback(fingerprints, Working(p))
           /\ UNCHANGED <<songs, call, latest, issued, count, lifecycle>>

\* tx.Commit(): the working copy becomes the table, or the transaction is
\* rolled back. rank is history: 2 for the call that committed last, 1 for
\* a call that committed before it.
StoreCommit(p) ==
    \E fault \in { "none", "commit" } :
        LET me == procs[p]
        IN /\ me.pc = "tx"
           /\ me.executed = Cardinality(DOMAIN me.batch)
           /\ writer' = Release(p)
           /\ IF fault = "none"
              THEN /\ fingerprints' = Commit(fingerprints, Working(p))
                   /\ latest' = [a \in Addresses |->
                                   IF a \in DOMAIN me.batch THEN { me.batch[a] } ELSE latest[a]]
                   /\ procs' = [q \in Procs |->
                                   IF q = p
                                   THEN [me EXCEPT !.pc = "done", !.rank = 2,
                                                   !.tx = Working(p)]
                                   ELSE [procs[q] EXCEPT !.rank = IF @ = 2 THEN 1 ELSE @]]
              ELSE /\ fingerprints' = Rollback(fingerprints, Working(p))
                   /\ latest' = latest
                   /\ procs' = [procs EXCEPT ![p] =
                                   [me EXCEPT !.pc = "done", !.err = "WriteError",
                                              !.fault = fault]]
           /\ UNCHANGED <<songs, call, issued, count, lifecycle>>

NextConcurrentStore ==
    \E p \in Procs :
        \/ StoreBegin(p)
        \/ StoreExec(p)
        \/ StoreCommit(p)
        \/ ProcReturn(p)

NextIndex ==
    \/ CallStoreFingerprints
    \/ CallGetCouples
    \/ Return

NextRegistry ==
    \/ CallRegisterSong
    \/ CallGetSong
    \/ CallGetSongByID
    \/ CallGetSongByYTID
    \/ CallGetSongByKey
    \/ CallDeleteSongByID
    \/ CallTotalSongs
    \/ Return

Next ==
    \/ CallStoreFingerprints
    \/ CallGetCouples
    \/ CallRegisterSong
    \/ CallGetSong
    \/ CallGetSongByID
    \/ CallGetSongByYTID
    \/ CallGetSongByKey
    \/ CallDeleteSongByID
    \/ CallTotalSongs
    \/ CallNewDbClient
    \/ CallInitTables
    \/ CallClose
    \/ CallDeleteStorage
    \/ Return

\* The batches that write the first address alone, and the one song title and
\* artist, used where both tables are exercised together.
FrameBatches == { b \in Batches : DOMAIN b \subseteq { 0 } }
FrameRequests == { << >>, << 0 >> }
FrameTitles == { << "a" >> }
FrameArtists == { << "b" >> }

NextFrame ==
    \/ StoreFingerprintsFrom(FrameBatches)
    \/ GetCouplesFrom(FrameRequests)
    \/ RegisterSongFrom(FrameTitles, FrameArtists)
    \/ CallGetSongByID
    \/ CallDeleteSongByID
    \/ CallTotalSongs
    \/ Return

\* No backend constructed yet: an SQLiteDB without a handle, an empty
\* database file.
InitUnopened ==
    /\ fingerprints = {}
    /\ songs = {}
    /\ call = NoCall
    /\ latest = [a \in Addresses |-> {}]
    /\ issued = {}
    /\ count = 0
    /\ handle = "nil"
    /\ tables = {}
    /\ client = "none"
    /\ procs = [p \in Procs |-> NoProc]
    /\ writer = "none"

NextLifecycle ==
    \/ CallNewDbClient
    \/ CallInitTables
    \/ CallClose
    \/ CallDeleteStorage
    \/ StoreFingerprintsFrom(FrameBatches)
    \/ GetCouplesFrom(FrameRequests)
    \/ RegisterSongFrom(FrameTitles, FrameArtists)
    \/ CallGetSongByID
    \/ CallDeleteSongByID
    \/ CallTotalSongs
    \/ Return

\* Every operation, in any order.
Spec == Init /\ [][Next]_vars

\* The operations on the fingerprint index alone.
SpecIndex == Init /\ [][NextIndex]_vars

\* The operations on the song registry alone.
SpecRegistry == Init /\ [][NextRegistry]_vars

\* The operations on both tables, on few inputs.
SpecFrame == Init /\ [][NextFrame]_vars

\* Two callers of RegisterSong.
SpecConcurrentRegister == Init /\ [][NextConcurrentRegister]_vars

\* Two callers of StoreFingerprints.
SpecConcurrentStore == Init /\ [][NextConcurrentStore]_vars

\* Construction, teardown and the operations on both tables, on few inputs.
SpecLifecycle == InitUnopened /\ [][NextLifecycle]_vars

(***************************************************************************)
(* Properties of the fingerprint index                                      *)
(***************************************************************************)
CoupleOf(r) == [AnchorTimeMs |-> r.anchorTimeMs, SongID |-> r.songID]

Elements(seq) == { seq[i] : i \in 1..Len(seq) }

\* What a caller observes of a table through GetCouples.
Observed(table) ==
    [addresses \in SeqsUpTo(Addresses, MaxReq) |-> GetCouples(table, addresses, "none", 1)]

\* C1: a StoreFingerprints call on which Begin, Prepare, an upsert or Commit
\* fails returns an error, and every failed call leaves the fingerprints table,
\* and so what GetCouples returns, exactly as it was before the call.
C1_StoreFingerprintsAtomic ==
    call.op = "StoreFingerprints" =>
        /\ call.fault # "none" => call.err # "nil"
        /\ call.err # "nil" =>
              /\ fingerprints = call.before.fingerprints
              /\ Observed(fingerprints) = Observed(call.before.fingerprints)

\* A call that failed after an upsert of a row the table does not hold had executed.
C1_FailedAfterUpsert ==
    /\ call.op = "StoreFingerprints"
    /\ call.err # "nil"
    /\ call.fault \in { "exec", "commit" }
    /\ call.executed >= 1
    /\ FpRow(call.order[1], call.batch[call.order[1]]) \notin call.before.fingerprints
    /\ FpRow(call.order[1], call.batch[call.order[1]]) \notin fingerprints

\* C2: after StoreFingerprints(B) succeeds, GetCouples of the keys of B, in any
\* order, succeeds and maps every address of B to the one occurrence B gave it.
C2_StoreThenGetCouples ==
    (call.op = "StoreFingerprints" /\ call.err = "nil") =>
        \A keys \in Orders(DOMAIN call.batch) :
            LET r == GetCouples(fingerprints, keys, "none", 1)
            IN /\ r.err = "nil"
               /\ r.couples = [a \in DOMAIN call.batch |-> << call.batch[a] >>]

\* A committed batch of two addresses, one of which held another occurrence.
C2_StoredBatch ==
    /\ call.op = "StoreFingerprints"
    /\ call.err = "nil"
    /\ Cardinality(DOMAIN call.batch) >= 2
    /\ \E r \in call.before.fingerprints :
          r.address \in DOMAIN call.batch /\ CoupleOf(r) # call.batch[r.address]

\* C3: the table holds at most one row per address, that row is the occurrence
\* of the most recent committed batch containing the address, and GetCouples
\* returns no sequence longer than one.
C3_UpsertOverwrite ==
    /\ \A a \in Addresses :
          /\ Cardinality(RowsAt(fingerprints, a)) <= 1
          /\ { CoupleOf(r) : r \in RowsAt(fingerprints, a) } = latest[a]
          /\ Len(GetCouples(fingerprints, << a >>, "none", 1).couples[a]) <= 1
    /\ call.op = "GetCouples" => \A a \in DOMAIN call.couples : Len(call.couples[a]) <= 1

\* A committed batch replaced the occurrence an address held.
C3_Overwritten ==
    /\ call.op = "StoreFingerprints"
    /\ call.err = "nil"
    /\ \E r \in call.before.fingerprints :
          /\ r.address \in DOMAIN call.batch
          /\ CoupleOf(r) # call.batch[r.address]
          /\ RowsAt(fingerprints, r.address) = { FpRow(r.address, call.batch[r.address]) }

GetSongOps == { "GetSong", "GetSongByID", "GetSongByYTID", "GetSongByKey" }

\* The row a RegisterSong call tried to insert.
CalledRow ==
    [id |-> call.newID, key |-> GenerateSongKey(call.title, call.artist), ytID |-> call.ytID]

\* C4: no two stored songs share an id, a key or a ytID. A RegisterSong call
\* whose INSERT reaches the table fails with DuplicateSong exactly when its
\* key, its ytID or its generated songID is that of a song in the registry (a
\* failure of the statement itself is the other error, WriteError), a failed
\* call leaves the registry as it was, and a successful one adds its row only.
C4_SongRegistryUnique ==
    /\ \A s, t \in songs : (s.id = t.id \/ s.key = t.key \/ s.ytID = t.ytID) => s = t
    /\ call.op = "RegisterSong" =>
          LET clash == \E s \in call.before.songs :
                          s.key = CalledRow.key \/ s.ytID = CalledRow.ytID \/ s.id = CalledRow.id
          IN /\ call.err = "DuplicateSong" => clash
             /\ call.fault = "none" => (call.err = "DuplicateSong" <=> clash)
             /\ call.fault = "none" => (call.err = "nil" <=> ~clash)
             /\ call.err # "nil" => songs = call.before.songs /\ call.songID = 0
             /\ call.err = "nil" =>
                   songs = call.before.songs \cup { CalledRow } /\ call.songID = call.newID

\* A registration refused for its ytID alone: another title, artist and songID.
C4_DuplicateRefused ==
    /\ call.op = "RegisterSong"
    /\ call.err = "DuplicateSong"
    /\ songs # {}
    /\ \A s \in songs : s.key # CalledRow.key /\ s.id # CalledRow.id

\* C5: GetSong with a filterField other than id, ytID and key fails with
\* InvalidFilter and does not reach the query.
C5_FilterAllowList ==
    (call.op = "GetSong" /\ call.filterKey \notin { Str_id, Str_ytID, Str_key }) =>
        call.err = "InvalidFilter" /\ ~call.queried

\* C6: after RegisterSong(title, artist, ytID) succeeds and returns songID,
\* GetSongByID(songID), GetSongByYTID(ytID) and GetSongByKey("<title>---<artist>")
\* each return (Song{title, artist, ytID}, true, nil).
C6_RegisterLookupRoundTrip ==
    (call.op = "RegisterSong" /\ call.err = "nil") =>
        LET want == [s |-> [Title |-> call.title, Artist |-> call.artist,
                            YouTubeID |-> call.ytID],
                     songExists |-> TRUE, e |-> "nil", queried |-> TRUE]
        IN /\ GetSongByID(songs, call.songID, "none") = want
           /\ GetSongByYTID(songs, call.ytID, "none") = want
           /\ GetSongByKey(songs, GenerateSongKey(call.title, call.artist), "none") = want

\* C7: every key stored in the registry splits into exactly two parts on "---".
C7_KeySplitsInTwo ==
    \A s \in songs : Len(Split(s.key, Sep)) = 2

\* C8: a lookup by id, ytID or key, without fault, of a value that no stored
\* song has in that column returns (Song{}, false, nil).
C8_NotFoundIsNoError ==
    ( /\ call.op \in GetSongOps
      /\ call.filterKey \in Columns
      /\ call.fault = "none"
      /\ \A s \in songs : ColumnValue(s, call.filterKey) # call.value ) =>
        /\ call.song = EmptySong
        /\ ~call.found
        /\ call.err = "nil"

\* A lookup by key that matches none of the two songs stored.
C8_NoMatchAmongSongs ==
    /\ call.op = "GetSongByKey"
    /\ call.fault = "none"
    /\ Cardinality(songs) = 2
    /\ \A s \in songs : TextVal(s.key) # call.value
    /\ ~call.found

\* C10: a songID that a successful RegisterSong returns was returned by no
\* earlier successful RegisterSong.
C10_SongIDNeverReused ==
    (call.op = "RegisterSong" /\ call.err = "nil") => call.songID \notin call.before.issued

\* Stored keys that do not split into two parts: none, one, three and four.
CorruptKeys ==
    { << >>, << "a" >>, << "a", "-", "-", "b" >>,
      << "a", "-", "-", "-", "b", "-", "-", "-", "b" >>,
      << "-", "-", "-", "-", "-", "-", "-", "-", "-" >> }

\* C11: a lookup that matches a row whose key does not split into exactly two
\* parts on "---" returns CorruptRecord with found=false and the empty Song; a
\* lookup that returns found=true returns the two parts of the matched key.
C11_CorruptKeySurfaced ==
    /\ (call.op \in GetSongOps /\ call.queried /\ call.fault = "none") =>
          LET q == QueryRow(songs, call.filterKey, call.value, "none")
          IN /\ (q.err = "nil" /\ Len(Split(q.row.key, Sep)) # 2) =>
                    call.err = "CorruptRecord" /\ ~call.found /\ call.song = EmptySong
             /\ call.found =>
                    /\ q.err = "nil"
                    /\ Len(Split(q.row.key, Sep)) = 2
                    /\ q.row.key = call.song.Title \o Sep \o call.song.Artist
                    /\ q.row.ytID = call.song.YouTubeID
    /\ \A key \in CorruptKeys :
          LET r == GetSong({ [id |-> 0, key |-> key, ytID |-> << "x" >>] },
                           Str_id, IntVal(0), "none")
          IN r.e = "CorruptRecord" /\ ~r.songExists /\ r.s = EmptySong

\* A lookup by songID matched a song whose key has three parts.
C11_CorruptRowMatched ==
    /\ call.op = "GetSongByID"
    /\ call.err = "CorruptRecord"
    /\ \E s \in songs : s.id = call.value.int /\ Len(Split(s.key, Sep)) = 3

\* C12: DeleteSongByID of a songID that is not in the registry returns no error
\* and leaves the registry as it was; after any successful DeleteSongByID a
\* second one of the same songID returns no error and changes nothing.
C12_DeleteIdempotent ==
    (call.op = "DeleteSongByID" /\ call.fault = "none") =>
        /\ call.err = "nil"
        /\ (\A s \in call.before.songs : s.id # call.songID) => songs = call.before.songs
        /\ DeleteSongByID(songs, call.songID, "none") = [err |-> "nil", table |-> songs]

\* A songID that no stored song has was deleted from a registry that holds a song.
C12_DeletedAbsent ==
    /\ call.op = "DeleteSongByID"
    /\ call.err = "nil"
    /\ songs # {}
    /\ \A s \in call.before.songs : s.id # call.songID

NotFound == [s |-> EmptySong, songExists |-> FALSE, e |-> "nil", queried |-> TRUE]

\* C13: after DeleteSongByID(id) succeeds for a registered song, the lookups by
\* its id, its ytID and its key each return (Song{}, false, nil), and every
\* other song is still stored and the three lookups of it return what they
\* returned before the deletion (the song itself when its key has two parts).
C13_DeletionEffect ==
    (call.op = "DeleteSongByID" /\ call.err = "nil") =>
        \A d \in call.before.songs :
            d.id = call.songID =>
                /\ GetSongByID(songs, d.id, "none") = NotFound
                /\ GetSongByYTID(songs, d.ytID, "none") = NotFound
                /\ GetSongByKey(songs, d.key, "none") = NotFound
                /\ \A o \in call.before.songs \ { d } :
                      /\ o \in songs
                      /\ GetSongByID(songs, o.id, "none")
                            = GetSongByID(call.before.songs, o.id, "none")
                      /\ GetSongByYTID(songs, o.ytID, "none")
                            = GetSongByYTID(call.before.songs, o.ytID, "none")
                      /\ GetSongByKey(songs, o.key, "none")
                            = GetSongByKey(call.before.songs, o.key, "none")
                      /\ Len(Split(o.key, Sep)) = 2 =>
                            /\ GetSongByID(songs, o.id, "none").songExists
                            /\ GetSongByYTID(songs, o.ytID, "none").songExists
                            /\ GetSongByKey(songs, o.key, "none").songExists

\* One of two registered songs was deleted; the other has a key of two parts.
C13_DeletedOneOfTwo ==
    /\ call.op = "DeleteSongByID"
    /\ call.err = "nil"
    /\ Cardinality(call.before.songs) = 2
    /\ \E o \in songs : o.id # call.songID /\ Len(Split(o.key, Sep)) = 2
    /\ \E d \in call.before.songs : d.id = call.songID

\* The operations that read the song registry or write the fingerprint index.
NonRegistryWrites ==
    GetSongOps \cup { "StoreFingerprints", "GetCouples", "TotalSongs" }

\* C14: TotalSongs returns the number of songs in the registry, which is the
\* number of successful registrations minus the number of deletions that
\* removed a song (count); a failed registration, a deletion of an absent
\* songID, a lookup and StoreFingerprints leave that number as it was.
C14_TotalSongsIsCardinality ==
    /\ count = Cardinality(songs)
    /\ (call.op = "TotalSongs" /\ call.fault = "none")
          => /\ call.err = "nil"
             /\ call.total = Cardinality(songs)
             /\ call.total = count
    /\ (call.op = "RegisterSong" /\ call.err # "nil")
          => Cardinality(songs) = Cardinality(call.before.songs)
    /\ (call.op = "RegisterSong" /\ call.err = "nil")
          => Cardinality(songs) = Cardinality(call.before.songs) + 1
    /\ (call.op = "DeleteSongByID" /\ \A s \in call.before.songs : s.id # call.songID)
          => Cardinality(songs) = Cardinality(call.before.songs)
    /\ (call.op = "DeleteSongByID" /\ call.err = "nil"
          /\ \E s \in call.before.songs : s.id = call.songID)
          => Cardinality(songs) = Cardinality(call.before.songs) - 1
    /\ call.op \in NonRegistryWrites
          => Cardinality(songs) = Cardinality(call.before.songs)

\* TotalSongs answers 1 after two songs were registered and one deleted, with
\* the index not empty.
C14_CountedAfterDelete ==
    /\ call.op = "TotalSongs"
    /\ call.err = "nil"
    /\ call.total = 1
    /\ Cardinality(issued) = 2
    /\ fingerprints # {}

\* C19: the song registry and the fingerprint index are independent.
\* RegisterSong and DeleteSongByID leave the index as it was, so a deletion
\* removes no occurrence; StoreFingerprints leaves the registry as it was and
\* stores occurrences whose SongID is no registered song.
C19_RegistryIndexIndependent ==
    /\ call.op \in { "RegisterSong", "DeleteSongByID" }
          => /\ fingerprints = call.before.fingerprints
             /\ Observed(fingerprints) = Observed(call.before.fingerprints)
    /\ call.op = "StoreFingerprints"
          => /\ songs = call.before.songs
             /\ issued = call.before.issued
    /\ (call.op = "StoreFingerprints" /\ call.fault = "none")
          => /\ call.err = "nil"
             /\ \A a \in DOMAIN call.batch :
                   RowsAt(fingerprints, a) = { FpRow(a, call.batch[a]) }
    /\ \A batch \in FrameBatches :
          DOMAIN batch # {}
             => LET s == StoreFingerprints(fingerprints, batch, << 0 >>, "none", 1)
                IN /\ s.err = "nil"
                   /\ RowsAt(s.table, 0) = { FpRow(0, batch[0]) }

\* A song is deleted while an occurrence citing its songID stays in the index,
\* and no song is registered under that songID afterwards.
C19_DeletedSongStillIndexed ==
    /\ call.op = "DeleteSongByID"
    /\ call.err = "nil"
    /\ \E s \in call.before.songs : s.id = call.songID
    /\ \A s \in songs : s.id # call.songID
    /\ \E r \in fingerprints : r.songID = call.songID

\* C15: Close on a backend that has no handle, or whose handle is closed
\* already, returns no error and changes nothing, so of any number of Close
\* calls in sequence only the first can do anything.
C15_CloseSafeToRepeat ==
    /\ (call.op = "Close" /\ call.before.handle \in { "nil", "closed" })
          => /\ call.err = "nil"
             /\ handle = call.before.handle
             /\ tables = call.before.tables
             /\ fingerprints = call.before.fingerprints
             /\ songs = call.before.songs
    /\ (call.op = "Close" /\ call.before.handle = "open") => handle = "closed"
    /\ Close(Close(handle, "none").handle, "none") = [err |-> "nil", handle |-> Close(handle, "none").handle]

\* Close is called on a backend that was closed before.
C15_ClosedAgain ==
    /\ call.op = "Close"
    /\ call.before.handle = "closed"
    /\ call.err = "nil"
    /\ songs # {}

\* C16: NewDbClient runs the document backend's constructor when STORAGE_TYPE
\* is unset or empty or names it, the relational backend's constructor when
\* STORAGE_TYPE names it, and returns what that constructor returns; for every
\* other value it returns UnsupportedBackend and no client, runs no
\* constructor and leaves the handle and the tables as they were.
C16_BackendSelection ==
    call.op = "NewDbClient" =>
        LET v == Getenv(call.env)
        IN /\ v \in { << >>, Str_mongodb }
                => /\ call.constructed = "mongodb"
                   /\ call.fault = "none" => (call.client = "mongodb" /\ call.err = "nil")
           /\ v = Str_sqlite
                => /\ call.constructed = "sqlite"
                   /\ call.fault = "none"
                        => /\ call.client = "sqlite"
                           /\ call.err = "nil"
                           /\ handle = "open"
                           /\ tables = TableNames
           /\ v \notin { << >>, Str_mongodb, Str_sqlite }
                => /\ call.err = "UnsupportedBackend"
                   /\ call.client = "nil"
                   /\ call.constructed = "none"
                   /\ handle = call.before.handle
                   /\ tables = call.before.tables

\* NewDbClient refuses a value that differs from a backend's name by case only.
C16_Unsupported ==
    /\ call.op = "NewDbClient"
    /\ call.env = [set |-> TRUE, value |-> << "S", "Q", "L", "i", "t", "e" >>]
    /\ call.err = "UnsupportedBackend"
    /\ call.client = "nil"

\* The operations that run a statement on the songs table.
SongsOps == GetSongOps \cup { "TotalSongs", "RegisterSong", "DeleteSongByID" }

\* A DeleteStorage call on an open handle without an engine fault succeeds
\* whether or not the table exists, removes the named table and leaves the
\* other table and its rows as they were.
DropsOnlyNamed ==
    (call.op = "DeleteStorage" /\ call.fault = "none" /\ call.before.handle = "open")
        => /\ call.err = "nil"
           /\ tables = call.before.tables \ { call.name }
           /\ call.name # "songs" => songs = call.before.songs
           /\ call.name # "fingerprints" => fingerprints = call.before.fingerprints

\* Without its table an operation on the songs table, and StoreFingerprints,
\* return an error, and only InitTables and NewDbClient create a table.
FailsWithoutTable ==
    /\ (call.op \in SongsOps /\ "songs" \notin call.before.tables)
          => /\ call.err # "nil"
             /\ ~call.found
    /\ (call.op = "StoreFingerprints" /\ "fingerprints" \notin call.before.tables)
          => call.err # "nil"
    /\ call.op \notin { "none", "InitTables", "NewDbClient" }
          => tables \subseteq call.before.tables

\* C20 as stated: DeleteStorage succeeds whether or not the table exists and
\* affects only that table, and afterwards every operation on the dropped
\* table, GetCouples included, returns an error until InitTables runs again.
C20_EveryOperationFailsAfterTeardown ==
    /\ DropsOnlyNamed
    /\ FailsWithoutTable
    /\ (call.op = "GetCouples" /\ "fingerprints" \notin call.before.tables)
          => call.err # "nil"

\* C20, amended: as stated, except that GetCouples returns an error without
\* the fingerprints table when it is given at least one address; given no
\* address it runs no query and returns the empty mapping and no error.
C20_TeardownNotRecreated ==
    /\ DropsOnlyNamed
    /\ FailsWithoutTable
    /\ (call.op = "GetCouples" /\ "fingerprints" \notin call.before.tables
          /\ call.addresses # << >>)
          => call.err # "nil"
    /\ (call.op = "GetCouples" /\ call.addresses = << >>)
          => (call.err = "nil" /\ call.couples = EmptyCouples)

\* TotalSongs fails on an open handle after DeleteStorage dropped the songs
\* table that held a song.
C20_DroppedThenCounted ==
    /\ call.op = "TotalSongs"
    /\ handle = "open"
    /\ "songs" \notin tables
    /\ "fingerprints" \in tables
    /\ call.err # "nil"
    /\ issued # {}

\* The callers whose RegisterSong call has returned, no engine fault on it.
Registered == { p \in Procs : procs[p].op = "RegisterSong" /\ procs[p].pc = "done"
                              /\ procs[p].fault = "none" }

\* The row a caller's RegisterSong inserts.
RowOf(p) == [id |-> procs[p].newID, key |-> procs[p].key, ytID |-> procs[p].ytID]

\* The uniqueness invariant; of two calls with the same key or the same ytID
\* at most one succeeds and the others fail with DuplicateSong.
AtMostOneSucceeds ==
    /\ \A s, t \in songs : (s.id = t.id \/ s.key = t.key \/ s.ytID = t.ytID) => s = t
    /\ \A p \in Registered : procs[p].err \in { "nil", "DuplicateSong" }
    /\ \A p \in Registered : procs[p].err = "nil" => RowOf(p) \in songs
    /\ \A p, q \in Registered :
          (p # q /\ (procs[p].key = procs[q].key \/ procs[p].ytID = procs[q].ytID))
             => ~(procs[p].err = "nil" /\ procs[q].err = "nil")

\* C17 as stated: of concurrent RegisterSong calls with the same (title,
\* artist) or the same ytID at most one succeeds, every other fails with
\* DuplicateSong, and the registry ends with exactly one song of that key,
\* or of that ytID.
C17_ExactlyOneSongRegistered ==
    /\ AtMostOneSucceeds
    /\ \A p, q \in Registered :
          /\ (q \in procs[p].with /\ procs[p].key = procs[q].key)
                => Cardinality({ s \in songs : s.key = procs[p].key }) = 1
          /\ (q \in procs[p].with /\ procs[p].ytID = procs[q].ytID)
                => Cardinality({ s \in songs : s.ytID = procs[p].ytID }) = 1

\* C17, amended: as stated, except that the registry ends with at most one
\* song of that key, or of that ytID: exactly one unless every one of the
\* calls was refused for a clash of another of its fields (its generated
\* songID, or the other of key and ytID) with a registered song.
C17_ConcurrentRegistration ==
    /\ AtMostOneSucceeds
    /\ \A p, q \in Registered :
          /\ (q \in procs[p].with /\ procs[p].key = procs[q].key)
                => \/ Cardinality({ s \in songs : s.key = procs[p].key }) = 1
                   \/ /\ \A s \in songs : s.key # procs[p].key
                      /\ \A c \in { p, q } :
                            /\ procs[c].err = "DuplicateSong"
                            /\ \E s \in songs : s.id = procs[c].newID \/ s.ytID = procs[c].ytID
          /\ (q \in procs[p].with /\ procs[p].ytID = procs[q].ytID)
                => \/ Cardinality({ s \in songs : s.ytID = procs[p].ytID }) = 1
                   \/ /\ \A s \in songs : s.ytID # procs[p].ytID
                      /\ \A c \in { p, q } :
                            /\ procs[c].err = "DuplicateSong"
                            /\ \E s \in songs : s.id = procs[c].newID \/ s.key = procs[c].key

\* Two callers registered the same title, artist and ytID, both INSERTs having
\* been pending at once: one succeeded, the other got DuplicateSong though its
\* songID was another.
C17_OneOfTwoRefused ==
    /\ Registered = Procs
    /\ procs["p1"].key = procs["p2"].key
    /\ procs["p1"].ytID = procs["p2"].ytID
    /\ procs["p1"].newID # procs["p2"].newID
    /\ procs["p1"].err = "DuplicateSong"
    /\ procs["p2"].err = "nil"
    /\ "p2" \in procs["p1"].with
    /\ Cardinality(songs) = 1

\* The callers whose StoreFingerprints call has returned without error.
Committed == { p \in Procs : procs[p].op = "StoreFingerprints" /\ procs[p].pc = "done"
                             /\ procs[p].err = "nil" }

\* The table after a caller's whole batch is applied to table.
Applied(table, p) ==
    ExecUpserts(table, procs[p].batch, procs[p].order, Cardinality(DOMAIN procs[p].batch))

\* C18: the fingerprints table is at every moment the result of the committed
\* batches applied one after the other in the order of their commits (latest),
\* so a batch that fails or has not committed contributes nothing; of two
\* concurrent calls that both committed, the table is the first batch applied
\* and then the second, and every address both wrote holds the occurrence of
\* the batch that committed last.
C18_ConcurrentBatchesSerialized ==
    /\ \A a \in Addresses :
          RowsAt(fingerprints, a) = { FpRow(a, c) : c \in latest[a] }
    /\ \A p \in Procs :
          (procs[p].op = "StoreFingerprints" /\ procs[p].pc = "done" /\ procs[p].err # "nil")
             => procs[p].rank = 0
    /\ \A p \in Committed :
          procs[p].rank = 2
             => /\ fingerprints = procs[p].tx
                /\ \A a \in DOMAIN procs[p].batch :
                      RowsAt(fingerprints, a) = { FpRow(a, procs[p].batch[a]) }
    /\ \A p, q \in Committed :
          (q \in procs[p].with /\ procs[p].rank = 2 /\ procs[q].rank = 1)
             => /\ fingerprints = Applied(procs[q].tx, p)
                /\ \A a \in DOMAIN procs[q].batch \ DOMAIN procs[p].batch :
                      RowsAt(fingerprints, a) = { FpRow(a, procs[q].batch[a]) }

\* Two concurrent calls wrote the same two addresses with different
\* occurrences and both committed.
C18_OverlappingCommitted ==
    /\ Committed = Procs
    /\ "p2" \in procs["p1"].with
    /\ procs["p1"].rank = 2
    /\ procs["p2"].rank = 1
    /\ DOMAIN procs["p1"].batch = { 0, 1 }
    /\ DOMAIN procs["p2"].batch = { 0, 1 }
    /\ \A a \in { 0, 1 } : procs["p1"].batch[a] # procs["p2"].batch[a]

====
